---- MODULE Spec2Model ----
(***************************************************************************)
(* Model of src/app.py: a Streamlit script that loads a pickled XGBoost    *)
(* classifier and a feature-name list (load_assets, memoised with          *)
(* st.cache_resource), renders one number_input per feature name in the    *)
(* sidebar, and, when the predict button was pressed, scores the inputs,   *)
(* tiers the probability, shows the result, and draws a SHAP force plot    *)
(* that is saved to the fixed file shap_plot.png and shown with st.image.  *)
(*                                                                         *)
(* The script is run top to bottom once per user event and session.  Each  *)
(* session runs its script in its own thread of one server process, so     *)
(* the steps of two sessions interleave; the resource cache, pyplot's      *)
(* current figure and the working directory are shared by all sessions.    *)
(*                                                                         *)
(* Numbers.  A probability is an integer in units of 10^-5 (0..100000).    *)
(* risk_percent (a percentage with two decimals) is an integer number of   *)
(* hundredths of a percent.  Widget values are integers in tenths.         *)
(* A SHAP value is the symbolic cell [cls, feat]: the contribution of      *)
(* feature feat to the output of class cls; a baseline is [cls, feat = 0]. *)
(***************************************************************************)
EXTENDS Integers, Sequences, FiniteSets, TLC

\* Longest feature-name list on disk, and widest model.
MaxFeatures == 2
\* Largest number of times the model file is read from disk in one behaviour.
MaxLoads == 2
\* Number of browser sessions the server may hold.
NSessions == 2

Sessions == 1..NSessions

VARIABLES
  disk,            \* the assets directory beside app.py (fixed for a behaviour)
  active,          \* the sessions connected to the server
  alive,           \* the server process is still running
  cache,           \* st.cache_resource entry of load_assets: <<>> or <<assets>>
  modelReads,      \* number of times joblib.load read the model file
  explainerBuilds, \* number of times shap.TreeExplainer was constructed
  curFig,          \* pyplot's current figure (process global): <<>> or <<chart>>
  file,            \* content of ./shap_plot.png: <<>> or <<chart>>
  pc,              \* per session: position of the script run
  status,          \* per session: how the latest run ended / "running"
  pressed,         \* per session: predict_button of the current run
  edited,          \* per session: widgets the user stepped away from the default
  input_values,    \* per session: the list built by the sidebar loop
  shown,           \* per session: what the page of the current run displays
  plotArgs,        \* per session: <<>> or <<[base, sv]>> handed to shap.force_plot
  explFailed,      \* per session: the explanation section raised in this run
  debug            \* per session: st.session_state['debug']

vars == <<disk, active, alive, cache, modelReads, explainerBuilds, curFig, file,
          pc, status, pressed, edited, input_values, shown, plotArgs,
          explFailed, debug>>

----------------------------------------------------------------------------
\* Feature names.  A name is a sequence of words; "k in feature" (substring
\* test) is the occurrence of the word k in the name.

KeyNLR        == "NLR"
KeyPlatelet   == "Platelet"
KeyPortalVein == "PortalVein"
KeyCollagenIV == "CollagenIV"

FeatureUniverse ==
  { <<"NLR">>, <<"Platelet", "Spleen">>, <<"PortalVein">>, <<"CollagenIV">>,
    <<"Age">>, <<"Platelet", "NLR">> }

Contains(key, feature) == \E k \in 1..Len(feature) : feature[k] = key

\* Lists of distinct names, of length 1..MaxFeatures.
NameLists ==
  { ns \in UNION { [1..n -> FeatureUniverse] : n \in 1..MaxFeatures } :
      \A i, j \in 1..Len(ns) : i # j => ns[i] # ns[j] }

----------------------------------------------------------------------------
\* The assets on disk.

AllDisks ==
  [ dir         : BOOLEAN,
    modelFile   : {"absent", "other", "xgb"},
    nClasses    : {2, 3},
    nFeatures   : 1..MaxFeatures,
    explainerOK : BOOLEAN,
    shapFmt     : {"single", "list", "array"},
    namesFile   : {"absent", "list", "set"},
    names       : NameLists ]


\* load_assets without the check of n_classes_.
LoadErrorNoClassCheck(d) ==
  IF ~d.dir THEN "FileNotFoundError: assets"
  ELSE IF d.modelFile = "absent" THEN "FileNotFoundError: model"
  ELSE IF d.modelFile # "xgb" THEN "TypeError"
  ELSE IF ~d.explainerOK THEN "explainer"
  ELSE IF d.namesFile = "absent" THEN "FileNotFoundError: feature names"
  ELSE "none"

\* The checks of load_assets, in the order the code makes them: the name of
\* the first one that raises, or "none".
LoadError(d) ==
  IF ~d.dir THEN "FileNotFoundError: assets"
  ELSE IF d.modelFile = "absent" THEN "FileNotFoundError: model"
  ELSE IF d.modelFile # "xgb" THEN "TypeError"
  ELSE IF d.nClasses # 2 THEN "ValueError"
  ELSE IF ~d.explainerOK THEN "explainer"
  ELSE IF d.namesFile = "absent" THEN "FileNotFoundError: feature names"
  ELSE "none"

\* joblib.load(model_path) is reached and returns an object.
ModelRead(d) == d.dir /\ d.modelFile # "absent"

\* shap.TreeExplainer(...) is reached and returns an explainer.
ExplainerBuilt(d) ==
  d.dir /\ d.modelFile = "xgb" /\ d.nClasses = 2 /\ d.explainerOK

\* The tuple load_assets returns.
Assets(d) ==
  [ model         |-> [nFeatures |-> d.nFeatures],
    explainer     |-> [shapFmt |-> d.shapFmt],
    feature_names |-> [isList |-> d.namesFile = "list", names |-> d.names] ]

\* Number of independent faults of a disk; the behaviours start from disks
\* with at most one fault, a faulty disk fixing the fields that are never read.
Faults(d) ==
  { f \in {"dir", "model", "type", "classes", "explainer", "names"} :
      \/ f = "dir" /\ ~d.dir
      \/ f = "model" /\ d.modelFile = "absent"
      \/ f = "type" /\ d.modelFile = "other"
      \/ f = "classes" /\ d.nClasses # 2
      \/ f = "explainer" /\ ~d.explainerOK
      \/ f = "names" /\ d.namesFile = "absent" }

Disks ==
  { d \in AllDisks :
      /\ Cardinality(Faults(d)) <= 1
      /\ Faults(d) # {} =>
           /\ d.nFeatures = 1
           /\ d.shapFmt = "single"
           /\ d.names = << <<"NLR">> >>
           /\ d.namesFile # "set" }

----------------------------------------------------------------------------
\* The sidebar loop.

\* The number_input each branch of the if/elif chain renders: default value
\* and step (tenths).  A name matching no branch renders nothing.
Control(feature) ==
  IF Contains(KeyNLR, feature) THEN [matched |-> TRUE, value |-> 35, step |-> 1]
  ELSE IF Contains(KeyPlatelet, feature) THEN [matched |-> TRUE, value |-> 180, step |-> 1]
  ELSE IF Contains(KeyPortalVein, feature) THEN [matched |-> TRUE, value |-> 140, step |-> 1]
  ELSE IF Contains(KeyCollagenIV, feature) THEN [matched |-> TRUE, value |-> 2000, step |-> 10]
  ELSE [matched |-> FALSE, value |-> 0, step |-> 0]

\* What st.number_input returns for the control of feature i: the widget's
\* session value, the default unless the user stepped it.
NumberInput(feature, i, ed) ==
  Control(feature).value + (IF i \in ed THEN Control(feature).step ELSE 0)

\* for feature in feature_names: ... input_values.append(val)
\* val is the script's variable: <<>> while unbound, <<v>> once assigned.  An
\* unmatched name assigns nothing, so the append reads the previous val, or
\* raises NameError when there is none.
RECURSIVE InputLoop(_, _, _, _, _, _)
InputLoop(names, i, val, acc, ctl, ed) ==
  IF i > Len(names) THEN [ok |-> TRUE, values |-> acc, controls |-> ctl]
  ELSE LET c == Control(names[i])
           v == IF c.matched THEN <<NumberInput(names[i], i, ed)>> ELSE val
       IN IF v = <<>>
          THEN [ok |-> FALSE, values |-> acc, controls |-> ctl]
          ELSE InputLoop(names, i + 1, v, Append(acc, v[1]),
                         IF c.matched THEN ctl \cup {i} ELSE ctl, ed)

----------------------------------------------------------------------------
\* Scoring and tiering.

RECURSIVE SumSeq(_)
SumSeq(xs) == IF xs = <<>> THEN 0 ELSE Head(xs) + SumSeq(Tail(xs))

\* model.predict_proba(input_df)[0][1] of one fixed fitted model: a
\* deterministic map from the input row to a probability (units of 10^-5).
\* It raises when the row's width is not the model's.
PredictProba(model, xs) ==
  IF Len(xs) # model.nFeatures THEN [ok |-> FALSE, prob |-> 0]
  ELSE [ok |-> TRUE, prob |-> (286 * SumSeq(xs) + 19986) % 100001]

\* round(v, 2) on a value given in units of 1/d of the last kept digit:
\* to the nearest, ties to the even neighbour.
RoundHalfEven(n, d) ==
  LET q == n \div d
      r == n % d
  IN IF 2 * r < d THEN q
     ELSE IF 2 * r > d THEN q + 1
     ELSE IF q % 2 = 0 THEN q ELSE q + 1

\* risk_percent = round(prob * 100, 2), in hundredths of a percent.
RiskPercent(prob) == RoundHalfEven(prob, 10)

\* if risk_percent >= 30 ... elif risk_percent >= 10 ... else
RiskLevel(risk_percent) ==
  IF risk_percent >= 3000 THEN "High"
  ELSE IF risk_percent >= 1000 THEN "Medium"
  ELSE "Low"

Advice(risk_level) ==
  IF risk_level = "High" THEN "inpatient monitoring, endoscopy, consider TIPS"
  ELSE IF risk_level = "Medium" THEN "biweekly follow-up, beta blocker"
  ELSE "follow-up every 3 months, anticoagulation"

\* The result box of st.markdown (prob is not displayed: it is kept to state
\* what the box was computed from).
ResultBox(prob) ==
  [ prob         |-> prob,
    risk_percent |-> RiskPercent(prob),
    risk_level   |-> RiskLevel(RiskPercent(prob)),
    advice       |-> Advice(RiskLevel(RiskPercent(prob))) ]

----------------------------------------------------------------------------
\* The explainer's results.  An ndarray is [dims, cell]: its shape and its
\* cells by 0-based index tuple.  A Python list of arrays is a sequence.

RECURSIVE IndexSet(_)
IndexSet(dims) ==
  IF dims = <<>> THEN { <<>> }
  ELSE { <<i>> \o t : i \in 0..(dims[1] - 1), t \in IndexSet(Tail(dims)) }

\* arr[k] for an ndarray.
Item(arr, k) ==
  [ dims |-> Tail(arr.dims),
    cell |-> [ t \in IndexSet(Tail(arr.dims)) |-> arr.cell[<<k>> \o t] ] ]

\* explainer.expected_value: a float, or an array with one baseline per class.
ExpectedValue(explainer) ==
  IF explainer.shapFmt = "single"
  THEN [isArray |-> FALSE, vals |-> << [cls |-> 1, feat |-> 0] >>]
  ELSE [isArray |-> TRUE,
        vals |-> << [cls |-> 0, feat |-> 0], [cls |-> 1, feat |-> 0] >>]

\* explainer.shap_values(input_df) for a frame of one row and n columns:
\*   "single": one array (1, n) for the explained output;
\*   "list":   a list with one array (1, n) per class;
\*   "array":  one array (1, n, 2), the class on the last axis.
ShapValues(explainer, n) ==
  IF explainer.shapFmt = "single"
  THEN [isList |-> FALSE,
        items |-> << [dims |-> <<1, n>>,
                      cell |-> [t \in IndexSet(<<1, n>>) |->
                                  [cls |-> 1, feat |-> t[2] + 1]]] >>]
  ELSE IF explainer.shapFmt = "list"
  THEN [isList |-> TRUE,
        items |-> [c \in 1..2 |->
                     [dims |-> <<1, n>>,
                      cell |-> [t \in IndexSet(<<1, n>>) |->
                                  [cls |-> c - 1, feat |-> t[2] + 1]]]]]
  ELSE [isList |-> FALSE,
        items |-> << [dims |-> <<1, n, 2>>,
                      cell |-> [t \in IndexSet(<<1, n, 2>>) |->
                                  [cls |-> t[3], feat |-> t[2] + 1]]] >>]

\* np.array(shap_values).shape
ShapShape(sh) ==
  IF sh.isList THEN <<Len(sh.items)>> \o sh.items[1].dims ELSE sh.items[1].dims

\* The selection of base_value and sv handed to shap.force_plot.
SelectPlotArgs(ev, sh) ==
  IF ev.isArray
  THEN [base |-> ev.vals[2],
        sv   |-> IF sh.isList THEN Item(sh.items[2], 0) ELSE Item(sh.items[1], 0)]
  ELSE [base |-> ev.vals[1],
        sv   |-> Item(sh.items[1], 0)]

\* shap.force_plot(base_value, sv, input_df.iloc[0], matplotlib=True) draws
\* one sample: it raises unless sv holds one value per feature of the row.
ForcePlotOK(sv, row) == sv.dims = <<Len(row)>>

\* The picture of a force plot: the row it was drawn from, and the session
\* whose request drew it.  A figure nothing was drawn on has owner 0.
Chart(s, row) == [owner |-> s, data |-> row]
BlankFig == [owner |-> 0, data |-> <<>>]

----------------------------------------------------------------------------
\* The page of a run.

BlankPage ==
  [ initError |-> FALSE, title |-> FALSE, controls |-> {}, button |-> FALSE,
    result |-> <<>>, chart |-> <<>>, reqError |-> FALSE, footer |-> FALSE ]

\* The state after the server started: nothing cached, no session has run.
Start(disks, sessions) ==
  /\ disk \in disks
  /\ active = sessions
  /\ alive = TRUE
  /\ cache = <<>>
  /\ modelReads = 0
  /\ explainerBuilds = 0
  /\ curFig = <<>>
  /\ file = <<>>
  /\ pc = [s \in Sessions |-> "idle"]
  /\ status = [s \in Sessions |-> "none"]
  /\ pressed = [s \in Sessions |-> FALSE]
  /\ edited = [s \in Sessions |-> {}]
  /\ input_values = [s \in Sessions |-> <<>>]
  /\ shown = [s \in Sessions |-> BlankPage]
  /\ plotArgs = [s \in Sessions |-> <<>>]
  /\ explFailed = [s \in Sessions |-> FALSE]
  /\ debug = [s \in Sessions |-> <<>>]

\* One session, every disk.
Init == Start(Disks, {1})

----------------------------------------------------------------------------
\* User events: each starts a run of the script, top to bottom.

\* A run may start when the session is idle.  (Bound: the model file is read
\* at most MaxLoads times.)
CanStart(s) ==
  /\ alive
  /\ s \in active
  /\ pc[s] = "idle"
  /\ cache = <<>> => modelReads < MaxLoads

BeginRun(s, button) ==
  /\ pc' = [pc EXCEPT ![s] = "load"]
  /\ status' = [status EXCEPT ![s] = "running"]
  /\ pressed' = [pressed EXCEPT ![s] = button]
  /\ shown' = [shown EXCEPT ![s] = BlankPage]
  /\ input_values' = [input_values EXCEPT ![s] = <<>>]
  /\ plotArgs' = [plotArgs EXCEPT ![s] = <<>>]
  /\ explFailed' = [explFailed EXCEPT ![s] = FALSE]

\* The browser opens or reloads the page: a fresh session state.
Open(s) ==
  /\ CanStart(s)
  /\ BeginRun(s, FALSE)
  /\ edited' = [edited EXCEPT ![s] = {}]
  /\ debug' = [debug EXCEPT ![s] = <<>>]
  /\ UNCHANGED <<disk, active, alive, cache, modelReads, explainerBuilds,
                 curFig, file>>

\* The user steps the number_input of feature i up or back to its default.
Edit(s, i) ==
  /\ CanStart(s)
  /\ i \in shown[s].controls
  /\ BeginRun(s, FALSE)
  /\ edited' = [edited EXCEPT ![s] =
                  IF i \in @ THEN @ \ {i} ELSE @ \cup {i}]
  /\ UNCHANGED <<disk, active, alive, cache, modelReads, explainerBuilds,
                 curFig, file, debug>>

\* The user clicks the predict button.
Press(s) ==
  /\ CanStart(s)
  /\ shown[s].button
  /\ BeginRun(s, TRUE)
  /\ UNCHANGED <<disk, active, alive, cache, modelReads, explainerBuilds,
                 curFig, file, edited, debug>>

----------------------------------------------------------------------------
\* The ways a step of the run ends other than by going on.

\* A handler that is not there: the exception leaves the script.
ExceptMissing(s, page) ==
  /\ shown' = [shown EXCEPT ![s] = page]
  /\ pc' = [pc EXCEPT ![s] = "idle"]
  /\ status' = [status EXCEPT ![s] = "crashed"]

\* except Exception as e: st.error(...); the script goes on to the footer.
Except(s, page) ==
  /\ shown' = [shown EXCEPT ![s] = [page EXCEPT !.reqError = TRUE]]
  /\ pc' = [pc EXCEPT ![s] = "footer"]
  /\ UNCHANGED status

\* An exception no handler of the script catches: the run is aborted.
Uncaught(s, page) ==
  /\ shown' = [shown EXCEPT ![s] = page]
  /\ pc' = [pc EXCEPT ![s] = "idle"]
  /\ status' = [status EXCEPT ![s] = "crashed"]

Running(s, at) == alive /\ s \in active /\ pc[s] = at

----------------------------------------------------------------------------
\* model, explainer, feature_names = load_assets()

\* The memoised call finds its entry: the body is not run.
LoadCached(s) ==
  /\ Running(s, "load")
  /\ cache # <<>>
  /\ pc' = [pc EXCEPT ![s] = "sidebar"]
  /\ UNCHANGED <<disk, active, alive, cache, modelReads, explainerBuilds,
                 curFig, file, status, pressed, edited, input_values, shown,
                 plotArgs, explFailed, debug>>

\* The body runs and returns: the tuple is stored in the cache.
LoadReturns(s) ==
  /\ Running(s, "load")
  /\ cache = <<>>
  /\ LoadError(disk) = "none"
  /\ cache' = <<Assets(disk)>>
  /\ modelReads' = modelReads + 1
  /\ explainerBuilds' = explainerBuilds + 1
  /\ pc' = [pc EXCEPT ![s] = "sidebar"]
  /\ UNCHANGED <<disk, active, alive, curFig, file, status, pressed, edited,
                 input_values, shown, plotArgs, explFailed, debug>>

\* The body raises: st.error, then sys.exit(1).  Nothing is cached.
\* SystemExit ends the run of this session's script; whether the serving
\* process ends with it is the host's choice, so both outcomes are taken.
LoadExits(s) ==
  /\ Running(s, "load")
  /\ cache = <<>>
  /\ LoadError(disk) # "none"
  /\ modelReads' = modelReads + (IF ModelRead(disk) THEN 1 ELSE 0)
  /\ explainerBuilds' = explainerBuilds + (IF ExplainerBuilt(disk) THEN 1 ELSE 0)
  /\ shown' = [shown EXCEPT ![s].initError = TRUE]
  /\ pc' = [pc EXCEPT ![s] = "idle"]
  /\ status' = [status EXCEPT ![s] = "exited"]
  /\ alive' \in BOOLEAN
  /\ UNCHANGED <<disk, active, cache, curFig, file, pressed, edited,
                 input_values, plotArgs, explFailed, debug>>

load_assets(s) == LoadCached(s) \/ LoadReturns(s) \/ LoadExits(s)

----------------------------------------------------------------------------
\* st.title, st.markdown, and the sidebar: the input loop and the button.
Sidebar(s) ==
  /\ Running(s, "sidebar")
  /\ LET r    == InputLoop(cache[1].feature_names.names, 1, <<>>, <<>>, {},
                           edited[s])
         page == [shown[s] EXCEPT !.title = TRUE, !.controls = r.controls]
     IN IF r.ok
        THEN /\ input_values' = [input_values EXCEPT ![s] = r.values]
             /\ shown' = [shown EXCEPT ![s] = [page EXCEPT !.button = TRUE]]
             /\ pc' = [pc EXCEPT ![s] = IF pressed[s] THEN "frame" ELSE "footer"]
             /\ UNCHANGED status
        ELSE /\ Uncaught(s, page)
             /\ UNCHANGED input_values
  /\ UNCHANGED <<disk, active, alive, cache, modelReads, explainerBuilds,
                 curFig, file, pressed, edited, plotArgs, explFailed, debug>>

\* pd.DataFrame([input_values], columns=feature_names) accepts list-like
\* columns as long as the row; it raises on a set.
DataFrameOK(values, feature_names) ==
  feature_names.isList /\ Len(values) = Len(feature_names.names)

\* input_df = pd.DataFrame(...): before the try.
Frame(s) ==
  /\ Running(s, "frame")
  /\ IF DataFrameOK(input_values[s], cache[1].feature_names)
     THEN /\ pc' = [pc EXCEPT ![s] = "score"]
          /\ UNCHANGED <<shown, status>>
     ELSE Uncaught(s, shown[s])
  /\ UNCHANGED <<disk, active, alive, cache, modelReads, explainerBuilds,
                 curFig, file, pressed, edited, input_values, plotArgs,
                 explFailed, debug>>

\* predict_proba, rounding, tiering, and the result box.
Score(s) ==
  /\ Running(s, "score")
  /\ LET r == PredictProba(cache[1].model, input_values[s])
     IN IF r.ok
        THEN /\ shown' = [shown EXCEPT ![s].result = <<ResultBox(r.prob)>>]
             /\ pc' = [pc EXCEPT ![s] = "explain"]
             /\ UNCHANGED status
        ELSE Except(s, shown[s])
  /\ UNCHANGED <<disk, active, alive, cache, modelReads, explainerBuilds,
                 curFig, file, pressed, edited, input_values, plotArgs,
                 explFailed, debug>>

\* The explanation section up to shap.force_plot: shap_values, the debug
\* entry of the session state, plt.figure, the selection, the plot.
\* computed = FALSE: explainer.shap_values raises.
Explain(s, computed) ==
  /\ Running(s, "explain")
  /\ LET explainer == cache[1].explainer
         row  == input_values[s]
         ev   == ExpectedValue(explainer)
         sh   == ShapValues(explainer, Len(row))
         args == SelectPlotArgs(ev, sh)
     IN IF ~computed
        THEN /\ Except(s, shown[s])
             /\ UNCHANGED <<debug, plotArgs, curFig>>
        ELSE /\ debug' = [debug EXCEPT ![s] =
                            << [expected_value |-> ev,
                                shap_values_shape |-> ShapShape(sh)] >>]
             /\ plotArgs' = [plotArgs EXCEPT ![s] = <<args>>]
             /\ IF ForcePlotOK(args.sv, row)
                THEN /\ curFig' = <<Chart(s, row)>>
                     /\ pc' = [pc EXCEPT ![s] = "save"]
                     /\ UNCHANGED <<shown, status>>
                ELSE /\ curFig' = <<BlankFig>>
                     /\ Except(s, shown[s])
  /\ explFailed' = [explFailed EXCEPT ![s] = (pc'[s] # "save")]
  /\ UNCHANGED <<disk, active, alive, cache, modelReads, explainerBuilds,
                 file, pressed, edited, input_values>>

\* plt.title, plt.tight_layout, plt.savefig("shap_plot.png"), plt.close():
\* pyplot works on the current figure of the process, and makes one when
\* there is none.  written = FALSE: savefig raises.
Save(s, written) ==
  /\ Running(s, "save")
  /\ IF written
     THEN /\ file' = IF curFig = <<>> THEN <<BlankFig>> ELSE curFig
          /\ curFig' = <<>>
          /\ pc' = [pc EXCEPT ![s] = "show"]
          /\ UNCHANGED <<shown, status, explFailed>>
     ELSE /\ Except(s, shown[s])
          /\ explFailed' = [explFailed EXCEPT ![s] = TRUE]
          /\ UNCHANGED <<file, curFig>>
  /\ UNCHANGED <<disk, active, alive, cache, modelReads, explainerBuilds,
                 pressed, edited, input_values, plotArgs, debug>>

\* st.image("shap_plot.png") shows the file as it is now.
\* read = FALSE: st.image raises.
Show(s, read) ==
  /\ Running(s, "show")
  /\ IF read
     THEN /\ shown' = [shown EXCEPT ![s].chart = file]
          /\ pc' = [pc EXCEPT ![s] = "footer"]
          /\ UNCHANGED <<status, explFailed>>
     ELSE /\ Except(s, shown[s])
          /\ explFailed' = [explFailed EXCEPT ![s] = TRUE]
  /\ UNCHANGED <<disk, active, alive, cache, modelReads, explainerBuilds,
                 curFig, file, pressed, edited, input_values, plotArgs, debug>>

\* st.markdown("---"); st.caption(...): the run is complete.
Footer(s) ==
  /\ Running(s, "footer")
  /\ shown' = [shown EXCEPT ![s].footer = TRUE]
  /\ pc' = [pc EXCEPT ![s] = "idle"]
  /\ status' = [status EXCEPT ![s] = "done"]
  /\ UNCHANGED <<disk, active, alive, cache, modelReads, explainerBuilds,
                 curFig, file, pressed, edited, input_values, plotArgs,
                 explFailed, debug>>

----------------------------------------------------------------------------
Next ==
  \E s \in Sessions :
    \/ Open(s)
    \/ \E i \in 1..MaxFeatures : Edit(s, i)
    \/ Press(s)
    \/ load_assets(s)
    \/ Sidebar(s)
    \/ Frame(s)
    \/ Score(s)
    \/ \E computed \in BOOLEAN : Explain(s, computed)
    \/ \E written \in BOOLEAN : Save(s, written)
    \/ \E read \in BOOLEAN : Show(s, read)
    \/ Footer(s)

Spec == Init /\ [][Next]_vars

\* Every session connected, on the disks whose feature-name file is the
\* one-name list (healthy or with one fault).
ConcDisks ==
  { d \in Disks : d.names = << <<"NLR">> >> /\ d.namesFile # "set"
                  /\ d.nFeatures = 1 /\ d.shapFmt = "single" }

InitConc == Start(ConcDisks, Sessions)

SpecConc == InitConc /\ [][Next]_vars

----------------------------------------------------------------------------
\* Properties.

\* C1: the tier shown is Low iff p < 0.10, Medium iff 0.10 <= p < 0.30 and
\* High iff p >= 0.30, p being the full-precision probability the box was
\* computed from (rounding touches the displayed percentage only).
C1_TierFromFullPrecision ==
  \A s \in Sessions :
    shown[s].result # <<>> =>
      LET box == shown[s].result[1]
      IN /\ box.risk_level = "Low" <=> box.prob < 10000
         /\ box.risk_level = "Medium" <=> (10000 <= box.prob /\ box.prob < 30000)
         /\ box.risk_level = "High" <=> box.prob >= 30000

\* C2: in a request whose scoring succeeded, a failure of the explanation
\* section is caught: the error message is shown, the result box computed
\* for this request's inputs is (still) shown, and the run goes on to the
\* footer instead of being aborted.
C2_ExplanationFailureCaught ==
  \A s \in Sessions :
    explFailed[s] =>
      /\ shown[s].reqError
      /\ shown[s].result # <<>>
      /\ shown[s].result[1].prob =
           PredictProba(cache[1].model, input_values[s]).prob
      /\ pc[s] \in {"footer", "idle"}
      /\ status[s] \in {"running", "done"}
      /\ pc[s] = "idle" => (status[s] = "done" /\ shown[s].footer)

\* C2 witness: a run whose explanation failed has completed, result and
\* error message on the page.
C2_Witness ==
  \E s \in Sessions :
    /\ explFailed[s]
    /\ pc[s] = "idle"
    /\ shown[s].footer
    /\ shown[s].reqError
    /\ shown[s].result # <<>>

\* C3: load_assets never returns a feature-name list whose length differs
\* from the model's feature count.
C3_NamesMatchModelWidth ==
  cache # <<>> =>
    Len(cache[1].feature_names.names) = cache[1].model.nFeatures

\* C4: when the assets are broken (no directory, no or a non-XGBoost model
\* file, a class count other than 2, no explainer, no feature-name file),
\* no run gets past load_assets: no control, button, result or chart is
\* displayed, no inputs are collected, and a run that ended ended in the
\* exit of load_assets with the initialisation error on the page.
C4_LoadFailureStopsRun ==
  ( \/ ~disk.dir
    \/ disk.modelFile # "xgb"
    \/ disk.nClasses # 2
    \/ ~disk.explainerOK
    \/ disk.namesFile = "absent" ) =>
  \A s \in Sessions :
    /\ pc[s] \in {"idle", "load"}
    /\ ~shown[s].title
    /\ shown[s].controls = {}
    /\ ~shown[s].button
    /\ shown[s].result = <<>>
    /\ shown[s].chart = <<>>
    /\ input_values[s] = <<>>
    /\ (pc[s] = "idle" /\ status[s] # "none") =>
         (status[s] = "exited" /\ shown[s].initError)

\* C4 witness: a run ended in the exit of load_assets on a model file that
\* is no XGBoost classifier.
C4_Witness ==
  \E s \in Sessions :
    /\ disk.modelFile = "other"
    /\ status[s] = "exited"
    /\ shown[s].initError

\* C5: a prediction request whose input vector has another number of
\* values than the model expects ends with the error message on the page,
\* without result box or chart, and the run completes.
C5_WidthMismatchIsShownError ==
  \A s \in Sessions :
    ( /\ pressed[s]
      /\ pc[s] = "idle"
      /\ cache # <<>>
      /\ shown[s].button
      /\ Len(input_values[s]) # cache[1].model.nFeatures ) =>
    /\ shown[s].reqError
    /\ shown[s].result = <<>>
    /\ shown[s].chart = <<>>
    /\ status[s] = "done"
    /\ shown[s].footer

\* C6: for a feature-name list, once the sidebar has been entered the
\* collector has not failed, every feature has a control of its own, and
\* entry i of the input vector is the value of the control of feature i.
C6_OneControlPerFeature ==
  \A s \in Sessions :
    (shown[s].title /\ cache[1].feature_names.isList) =>
      LET names == cache[1].feature_names.names
      IN /\ shown[s].button
         /\ Len(input_values[s]) = Len(names)
         /\ shown[s].controls = 1..Len(names)
         /\ \A i \in 1..Len(names) :
              input_values[s][i] = NumberInput(names[i], i, edited[s])

\* C7: when the explainer returns per-class results, the plot is given the
\* class-1 baseline and the class-1 contributions of the row, one value per
\* feature.
C7_PositiveClassPlotArgs ==
  \A s \in Sessions :
    (plotArgs[s] # <<>> /\ cache[1].explainer.shapFmt # "single") =>
      LET a == plotArgs[s][1]
          n == Len(input_values[s])
      IN /\ a.base = [cls |-> 1, feat |-> 0]
         /\ a.sv.dims = <<n>>
         /\ \A f \in 1..n : a.sv.cell[<<f - 1>>] = [cls |-> 1, feat |-> f]

\* C8: the model file is read and the explainer built exactly once in the
\* process (never a second time), and a result on the page is the one
\* computed from the inputs of the current request.
C8_LoadedOnce ==
  /\ modelReads <= 1
  /\ explainerBuilds <= 1
  /\ \A s \in Sessions :
       shown[s].result # <<>> =>
         shown[s].result[1].prob =
           PredictProba(cache[1].model, input_values[s]).prob

\* C9: a prediction request always completes: its run reaches the footer,
\* and when it shows no result or no chart it shows the error message.
C9_RequestFailuresCaught ==
  \A s \in Sessions :
    (pressed[s] /\ pc[s] = "idle") =>
      /\ status[s] = "done"
      /\ shown[s].footer
      /\ (shown[s].result = <<>> \/ shown[s].chart = <<>>) => shown[s].reqError

\* C10: the chart a request displays is the force plot of this request's
\* input vector, with one session or with several interleaved.
C10_ChartOfOwnRequest ==
  \A s \in Sessions :
    shown[s].chart # <<>> =>
      shown[s].chart[1].data = input_values[s]

====
